---- MODULE Spec2Model ----
(***************************************************************************)
(* SwaggerParser (samcli/commands/local/lib/swagger/parser.py): extraction *)
(* of Route records and binary media types from a Swagger document.        *)
(*                                                                         *)
(* Python values are records [t, s, kv]:                                   *)
(*   t = "none"  None                                                      *)
(*   t = "str"   a string, held in s                                       *)
(*   t = "list"  a list, items in kv                                       *)
(*   t = "dict"  a dict in insertion order, kv a sequence of <<key, value>>*)
(*               pairs with distinct keys                                  *)
(* Dict keys are strings, except the method names of a path's mapping,     *)
(* which are sequences of one-character strings because str.lower() acts   *)
(* on characters.                                                          *)
(***************************************************************************)
EXTENDS Integers, Sequences, FiniteSets, TLC

VARIABLES
    document,       \* the argument given to SwaggerParser(swagger)
    swagger,        \* self.swagger
    pc,             \* position of the one call made on the parser
    event_type,     \* get_routes: the event_type argument
    paths_dict,     \* get_routes: local paths_dict
    security_dict,  \* get_routes: local security_dict
    i,              \* get_routes: index of the current item of paths_dict.items()
    j,              \* get_routes: index of the current item of path_config.items()
    function_name,  \* get_routes: local function_name
    authorizers,    \* get_routes: local authorizers
    auth_calls,     \* the _get_authorizer_function_name invocations of the last comprehension
    result,         \* get_routes: local result
    returned,       \* value returned by the call, Unset while none was returned
    error           \* exception that left the call, "" while none did

vars == <<document, swagger, pc, event_type, paths_dict, security_dict, i, j,
          function_name, authorizers, auth_calls, result, returned, error>>

-----------------------------------------------------------------------------
(* Python values *)

PyNone == [t |-> "none", s |-> "", kv |-> <<>>]

Str(x) == [t |-> "str", s |-> x, kv |-> <<>>]

List(items) == [t |-> "list", s |-> "", kv |-> items]

Dict(pairs) == [t |-> "dict", s |-> "", kv |-> pairs]

Unset == [t |-> "unset", s |-> "", kv |-> <<>>]

\* bool(v)
Truthy(v) ==
    CASE v.t = "none" -> FALSE
      [] v.t = "str"  -> v.s # ""
      [] OTHER        -> v.kv # <<>>

\* a or b
PyOr(a, b) == IF Truthy(a) THEN a ELSE b

\* isinstance(v, dict)
IsDict(v) == v.t = "dict"

\* k in d
DictHas(d, k) == \E n \in DOMAIN d.kv : d.kv[n][1] = k

\* d[k], for a key that is present
DictIndex(d, k) == d.kv[CHOOSE n \in DOMAIN d.kv : d.kv[n][1] = k][2]

\* d.get(k, default)
DictGet(d, k, default) == IF DictHas(d, k) THEN DictIndex(d, k) ELSE default

-----------------------------------------------------------------------------
(* Class constants and external tags *)

_INTEGRATION_KEY == "x-amazon-apigateway-integration"

_AUTHORIZER_KEY == "x-amazon-apigateway-authorizer"

_ANY_METHOD_EXTENSION_KEY ==
    <<"x","-","a","m","a","z","o","n","-","a","p","i","g","a","t","e","w","a","y",
      "-","a","n","y","-","m","e","t","h","o","d">>

_BINARY_MEDIA_TYPES_EXTENSION_KEY == "x-amazon-apigateway-binary-media-types"

_ANY_METHOD == <<"A","N","Y">>

\* IntegrationType.aws_proxy.value
IntegrationType_aws_proxy == "aws_proxy"

\* AuthorizerType.token.value
AuthorizerType_token == "token"

\* AuthorizerType.request.value
AuthorizerType_request == "request"

\* Route.API, Route.HTTP
Route_API == "Api"

Route_HTTP == "HttpApi"

-----------------------------------------------------------------------------
(* str.lower() on a sequence of characters *)

UpperToLower ==
    ("A" :> "a") @@ ("B" :> "b") @@ ("C" :> "c") @@ ("D" :> "d") @@ ("E" :> "e") @@
    ("F" :> "f") @@ ("G" :> "g") @@ ("H" :> "h") @@ ("I" :> "i") @@ ("J" :> "j") @@
    ("K" :> "k") @@ ("L" :> "l") @@ ("M" :> "m") @@ ("N" :> "n") @@ ("O" :> "o") @@
    ("P" :> "p") @@ ("Q" :> "q") @@ ("R" :> "r") @@ ("S" :> "s") @@ ("T" :> "t") @@
    ("U" :> "u") @@ ("V" :> "v") @@ ("W" :> "w") @@ ("X" :> "x") @@ ("Y" :> "y") @@
    ("Z" :> "z")

LowerChar(c) == IF c \in DOMAIN UpperToLower THEN UpperToLower[c] ELSE c

Lower(chars) == [n \in DOMAIN chars |-> LowerChar(chars[n])]

-----------------------------------------------------------------------------
(* External URI resolver, LambdaUri.get_function_name(uri): the function   *)
(* identifier embedded in a URI expression, or None.  Its grammar is not    *)
(* part of this module; it is a fixed table over the URIs of the documents. *)

UriFoo == Str("arn:aws:apigateway:us-east-1:lambda:path/2015-03-31/functions/arn:aws:lambda:us-east-1:123456789012:function:Foo/invocations")

UriBar == Str("arn:aws:apigateway:us-east-1:lambda:path/2015-03-31/functions/arn:aws:lambda:us-east-1:123456789012:function:Bar/invocations")

UriAuth == Str("arn:aws:apigateway:us-east-1:lambda:path/2015-03-31/functions/arn:aws:lambda:us-east-1:123456789012:function:Auth/invocations")

UriBlank == Str("arn:aws:apigateway:us-east-1:lambda:path/2015-03-31/functions/arn:aws:lambda:us-east-1:123456789012:function:/invocations")

UriHttp == Str("https://example.com/backend")

ResolverTable ==
    (UriFoo.s :> "Foo") @@ (UriBar.s :> "Bar") @@ (UriAuth.s :> "Auth") @@ (UriBlank.s :> "")

LambdaUri_get_function_name(uri) ==
    IF uri.t = "str" /\ uri.s \in DOMAIN ResolverTable
    THEN Str(ResolverTable[uri.s])
    ELSE PyNone

-----------------------------------------------------------------------------
(* Helpers of SwaggerParser *)

\* self.swagger = swagger or {}
SwaggerParser_init(swagger_arg) == PyOr(swagger_arg, Dict(<<>>))

\* integration.get("type") == IntegrationType.aws_proxy.value
IsProxyType(integration) ==
    DictGet(integration, "type", PyNone) = Str(IntegrationType_aws_proxy)

_get_integration(method_config) ==
    IF ~IsDict(method_config) \/ ~DictHas(method_config, _INTEGRATION_KEY)
    THEN PyNone
    ELSE LET integration == DictIndex(method_config, _INTEGRATION_KEY)
         IN  IF Truthy(integration) /\ IsDict(integration) /\ IsProxyType(integration)
             THEN integration
             ELSE PyNone

_get_integration_function_name(method_config) ==
    LET integration == _get_integration(method_config)
    IN  IF integration = PyNone
        THEN PyNone
        ELSE LambdaUri_get_function_name(DictGet(integration, "uri", PyNone))

\* Variant: the version is read from the method config instead of the integration
_get_payload_format_version_FromMethod(method_config) ==
    DictGet(method_config, "payloadFormatVersion", PyNone)

_get_payload_format_version(method_config) ==
    LET integration == _get_integration(method_config)
    IN  IF integration = PyNone
        THEN PyNone
        ELSE DictGet(integration, "payloadFormatVersion", PyNone)

\* Variant: only the token type is accepted
IsAuthorizerType_TokenOnly(authorizer) ==
    DictGet(authorizer, "type", PyNone) = Str(AuthorizerType_token)

\* authorizer.get("type") == token or == request
IsAuthorizerType(authorizer) ==
    \/ DictGet(authorizer, "type", PyNone) = Str(AuthorizerType_token)
    \/ DictGet(authorizer, "type", PyNone) = Str(AuthorizerType_request)

\* The value returned and the URIs handed to the resolver on the way.
_get_authorizer_function_name(scheme_config) ==
    IF ~IsDict(scheme_config) \/ ~DictHas(scheme_config, _AUTHORIZER_KEY)
    THEN [value |-> PyNone, resolved |-> <<>>]
    ELSE LET authorizer == DictIndex(scheme_config, _AUTHORIZER_KEY)
         IN  IF Truthy(authorizer) /\ IsDict(authorizer) /\ IsAuthorizerType(authorizer)
             THEN LET uri == DictGet(authorizer, "authorizerUri", PyNone)
                  IN  [value |-> LambdaUri_get_function_name(uri), resolved |-> <<uri>>]
             ELSE [value |-> PyNone, resolved |-> <<>>]

\* Variant: self.swagger.get(self._BINARY_MEDIA_TYPES_EXTENSION_KEY, [])
BinaryMediaTypes_DefaultOnly(sw) ==
    DictGet(sw, _BINARY_MEDIA_TYPES_EXTENSION_KEY, List(<<>>))

\* self.swagger.get(self._BINARY_MEDIA_TYPES_EXTENSION_KEY) or []
BinaryMediaTypes(sw) ==
    PyOr(DictGet(sw, _BINARY_MEDIA_TYPES_EXTENSION_KEY, PyNone), List(<<>>))

-----------------------------------------------------------------------------
(* Input documents *)

\* Largest number of method entries in a document with several entries.
MaxEntries == 3

\* A key left out of a mapping.
Absent == Unset

Opt(k, v) == IF v.t = "unset" THEN <<>> ELSE << <<k, v>> >>

Get == <<"g","e","t">>

GetUpper == <<"G","E","T">>

AnyWord == <<"a","n","y">>

AnyMixed ==
    <<"X","-","A","m","a","z","o","n","-","A","p","i","G","a","t","e","w","a","y",
      "-","A","n","y","-","M","e","t","h","o","d">>

AnyNoDash ==
    <<"x","-","a","m","a","z","o","n","-","a","p","i","g","a","t","e","w","a","y",
      "-","a","n","y","m","e","t","h","o","d">>

MethodKeys == {Get, GetUpper, AnyWord, _ANY_METHOD_EXTENSION_KEY, AnyMixed, AnyNoDash}

Integration(type, uri, version) ==
    Dict(Opt("type", type) \o Opt("uri", uri) \o Opt("payloadFormatVersion", version))

Integrations ==
    { Absent, PyNone, Dict(<<>>), Str("aws_proxy"), List(<<Str("aws_proxy")>>),
      Integration(Str("mock"), UriFoo, Absent),
      Integration(Str("AWS_PROXY"), UriFoo, Absent),
      Integration(Absent, UriFoo, Str("2.0")),
      Integration(Str("aws_proxy"), UriFoo, Absent),
      Integration(Str("aws_proxy"), UriBar, Str("2.0")),
      Integration(Str("aws_proxy"), UriHttp, Absent),
      Integration(Str("aws_proxy"), UriBlank, Str("1.0")),
      Integration(Str("aws_proxy"), Absent, Absent) }

\* One item of a `security` list: scheme names, each with an empty scopes list.
Requirement(names) == Dict([n \in DOMAIN names |-> <<names[n], List(<<>>)>>])

Securities ==
    { Absent, List(<<>>),
      List(<<Requirement(<<"a">>)>>),
      List(<<Requirement(<<"b">>), Requirement(<<"a">>)>>),
      List(<<Requirement(<<"b", "a">>)>>),
      List(<<Requirement(<<"missing">>)>>),
      List(<<Requirement(<<"a">>), Requirement(<<"missing">>)>>) }

MethodConfig(integration, security) ==
    Dict(Opt("summary", Str("an operation")) \o Opt(_INTEGRATION_KEY, integration)
         \o Opt("security", security))

MethodConfigs ==
    { MethodConfig(x, y) : x \in Integrations, y \in Securities }
    \cup { PyNone, Str("todo"), List(<<Str("get")>>) }

Authorizer(type, uri) == Dict(Opt("type", type) \o Opt("authorizerUri", uri))

Scheme(authorizer) ==
    Dict(Opt("type", Str("apiKey")) \o Opt(_AUTHORIZER_KEY, authorizer))

SchemeConfigs ==
    { PyNone, Str("apiKey"), Scheme(Absent), Scheme(PyNone), Scheme(Dict(<<>>)),
      Scheme(Str("token")), Scheme(List(<<Str("token")>>)),
      Scheme(Authorizer(Str("token"), UriAuth)),
      Scheme(Authorizer(Str("request"), UriBar)),
      Scheme(Authorizer(Str("jwt"), UriAuth)),
      Scheme(Authorizer(Absent, UriAuth)),
      Scheme(Authorizer(Str("token"), UriHttp)),
      Scheme(Authorizer(Str("request"), Absent)) }

Components(x, y) ==
    Dict(<< <<"securitySchemes", Dict(<< <<"a", x>>, <<"b", y>> >>)>> >>)

StandardComponents ==
    Components(Scheme(Authorizer(Str("token"), UriAuth)), Scheme(Str("token")))

MkDoc(paths, components, binary) ==
    Dict(Opt("openapi", Str("3.0")) \o Opt("paths", paths) \o Opt("components", components)
         \o Opt(_BINARY_MEDIA_TYPES_EXTENSION_KEY, binary))

\* Documents with one method entry: every key, every method config.
SingleDocs ==
    { MkDoc(Dict(<< <<"/a", Dict(<< <<k, c>> >>)>> >>), comp, Absent) :
        k \in MethodKeys, c \in MethodConfigs,
        comp \in {Absent, Dict(<<>>), StandardComponents} }

\* Documents whose method entry names the schemes a and b: every pair of scheme configs.
AuthDocs ==
    { MkDoc(Dict(<< <<"/a", Dict(<< <<Get, MethodConfig(
                Integration(Str("aws_proxy"), UriFoo, Absent), sec)>> >>)>> >>),
            Components(x, y), Absent) :
        x \in SchemeConfigs, y \in SchemeConfigs,
        sec \in { List(<<Requirement(<<"b">>), Requirement(<<"a">>)>>),
                  List(<<Requirement(<<"a", "b">>)>>) } }

\* Documents with up to MaxEntries method entries over the paths /a and /b.
CoreEntries ==
    { <<k, c>> :
        k \in {Get, AnyMixed},
        c \in { MethodConfig(Integration(Str("aws_proxy"), UriFoo, Absent), Absent),
                MethodConfig(Integration(Str("aws_proxy"), UriBar, Str("2.0")),
                             List(<<Requirement(<<"b">>), Requirement(<<"a">>)>>)),
                MethodConfig(Integration(Str("aws_proxy"), UriBlank, Absent), Absent),
                MethodConfig(Absent, List(<<Requirement(<<"missing">>)>>)),
                MethodConfig(Integration(Str("aws_proxy"), UriFoo, Absent),
                             List(<<Requirement(<<"missing">>)>>)) } }

DistinctKeys(pairs) ==
    \A m, n \in DOMAIN pairs : pairs[m][1] = pairs[n][1] => m = n

PathConfigs ==
    { Dict(es) : es \in { e \in UNION { [1..n -> CoreEntries] : n \in 0..MaxEntries } :
                            DistinctKeys(e) } }

MultiPaths ==
    { Dict(<< <<"/a", x>> >>) : x \in PathConfigs }
    \cup { Dict(<< <<ks[1], x>>, <<ks[2], y>> >>) :
             ks \in {<<"/a", "/b">>, <<"/b", "/a">>},
             x \in PathConfigs, y \in PathConfigs }

MultiDocs ==
    { MkDoc(paths, StandardComponents, Absent) :
        paths \in { q \in MultiPaths :
                      Len(q.kv[1][2].kv) + (IF Len(q.kv) = 2 THEN Len(q.kv[2][2].kv) ELSE 0)
                        <= MaxEntries } }

BinaryValues ==
    { Absent, PyNone, List(<<>>), Str(""), Dict(<<>>),
      List(<<Str("image/png")>>),
      List(<<Str("image/png"), Str("image/gif")>>),
      List(<<Str("image/gif"), Str("image/png")>>),
      List(<<Str("image/gif"), Str("image/gif")>>) }

BinaryDocs ==
    { MkDoc(paths, Absent, b) :
        paths \in { Absent, Dict(<<>>), Dict(<< <<"/a", Dict(<<>>)>> >>) },
        b \in BinaryValues }

Documents ==
    {PyNone, Dict(<<>>)} \cup BinaryDocs \cup SingleDocs \cup AuthDocs \cup MultiDocs

EventTypes == {Route_API, Route_HTTP}

-----------------------------------------------------------------------------
(* get_routes *)

\* Route(function_name, full_path, methods=[method], event_type=event_type,
\*       payload_format_version=payload_format_version, authorizers=authorizers)
Route(fn, path, methods, et, version, auths) ==
    [function_name |-> fn, path |-> path, methods |-> methods, event_type |-> et,
     payload_format_version |-> version, authorizers |-> auths]

\* The loop variables at position (i, j) of the nested iteration.
path_config == paths_dict.kv[i][2]

full_path == paths_dict.kv[i][1]

method == path_config.kv[j][1]

method_config == path_config.kv[j][2]

\* Whether the nested for loops have another item after position <<a, b>>.
HasNext(pd, a, b) ==
    \/ a >= 1 /\ b < Len(pd.kv[a][2].kv)
    \/ \E n \in (a + 1)..Len(pd.kv) : pd.kv[n][2].kv # <<>>

\* The position of that item.
NextPos(pd, a, b) ==
    IF a >= 1 /\ b < Len(pd.kv[a][2].kv)
    THEN <<a, b + 1>>
    ELSE <<CHOOSE n \in (a + 1)..Len(pd.kv) :
              /\ pd.kv[n][2].kv # <<>>
              /\ \A m \in (a + 1)..(n - 1) : pd.kv[m][2].kv = <<>>, 1>>

\* Variant: security_dict.get(name)
SchemeLookup_Get(sd, name) == [error |-> "", value |-> DictGet(sd, name, PyNone)]

\* security_dict[name]
SchemeLookup(sd, name) ==
    IF DictHas(sd, name)
    THEN [error |-> "", value |-> DictIndex(sd, name)]
    ELSE [error |-> "KeyError", value |-> PyNone]

\* Variant: names whose authorizer resolves to None are left out of the mapping
AuthorizerMapping_DropNone(auth, sd) ==
    LET Resolved(pair) ==
            _get_authorizer_function_name(SchemeLookup(sd, pair[1]).value).value.t # "none"
        kept == SelectSeq(auth.kv, Resolved)
    IN  Dict([n \in DOMAIN kept |->
                <<kept[n][1],
                  _get_authorizer_function_name(SchemeLookup(sd, kept[n][1]).value).value>>])

\* {name: self._get_authorizer_function_name(security_dict[name]) for name, values in auth.items()}
AuthorizerMapping(auth, sd) ==
    Dict([n \in DOMAIN auth.kv |->
            <<auth.kv[n][1],
              _get_authorizer_function_name(SchemeLookup(sd, auth.kv[n][1]).value).value>>])

\* [ {...} for auth in method_config.get("security", []) ]
AuthorizerList(security, sd) ==
    List([k \in DOMAIN security.kv |-> AuthorizerMapping(security.kv[k], sd)])

\* The exception the comprehension raises, "" when it completes.
AuthorizerError(mc, sd) ==
    IF ~IsDict(mc)
    THEN "AttributeError"
    ELSE LET security == DictGet(mc, "security", List(<<>>))
         IN  IF \E k \in DOMAIN security.kv : \E n \in DOMAIN security.kv[k].kv :
                    SchemeLookup(sd, security.kv[k].kv[n][1]).error # ""
             THEN "KeyError"
             ELSE ""

\* The _get_authorizer_function_name invocations of the comprehension, in order.
RECURSIVE Invocations(_, _, _, _)
Invocations(security, sd, k, n) ==
    IF k > Len(security.kv)
    THEN <<>>
    ELSE IF n > Len(security.kv[k].kv)
    THEN Invocations(security, sd, k + 1, 1)
    ELSE LET looked == SchemeLookup(sd, security.kv[k].kv[n][1])
         IN  IF looked.error # ""
             THEN <<>>
             ELSE LET call == _get_authorizer_function_name(looked.value)
                  IN  <<[scheme_config |-> looked.value, value |-> call.value,
                         resolved |-> call.resolved]>>
                      \o Invocations(security, sd, k, n + 1)

\* Variant: if function_name is None
NoFunctionName_IsNone(fn) == fn.t = "none"

\* if not function_name
NoFunctionName(fn) == ~Truthy(fn)

\* Variant: if method == self._ANY_METHOD_EXTENSION_KEY
NormalizedMethod_CaseSensitive(m) ==
    IF m = _ANY_METHOD_EXTENSION_KEY THEN _ANY_METHOD ELSE m

\* if method.lower() == self._ANY_METHOD_EXTENSION_KEY: method = self._ANY_METHOD
NormalizedMethod(m) == IF Lower(m) = _ANY_METHOD_EXTENSION_KEY THEN _ANY_METHOD ELSE m

\* Variant: result.insert(0, route)
AppendRoute_Front(res, route) == <<route>> \o res

\* result.append(route)
AppendRoute(res, route) == Append(res, route)

\* result = []; paths_dict = ...; components_dict = ...; security_dict = ...
GetRoutesBegin(et) ==
    /\ pc = "idle"
    /\ pc' = "for"
    /\ event_type' = et
    /\ result' = <<>>
    /\ paths_dict' = DictGet(swagger, "paths", Dict(<<>>))
    /\ LET components_dict == DictGet(swagger, "components", Dict(<<>>))
       IN  security_dict' = DictGet(components_dict, "securitySchemes", Dict(<<>>))
    /\ UNCHANGED <<document, swagger, i, j, function_name, authorizers, auth_calls,
                   returned, error>>

\* The for loops yield the next (method, method_config); function_name is resolved.
ResolveIntegration ==
    /\ pc = "for"
    /\ HasNext(paths_dict, i, j)
    /\ LET pos == NextPos(paths_dict, i, j)
       IN  /\ i' = pos[1]
           /\ j' = pos[2]
           /\ function_name' =
                _get_integration_function_name(paths_dict.kv[pos[1]][2].kv[pos[2]][2])
    /\ pc' = "authorizers"
    /\ UNCHANGED <<document, swagger, event_type, paths_dict, security_dict, authorizers,
                   auth_calls, result, returned, error>>

\* authorizers = [...]; an exception of the comprehension leaves get_routes.
ResolveAuthorizers ==
    /\ pc = "authorizers"
    /\ LET err == AuthorizerError(method_config, security_dict)
           security == IF IsDict(method_config)
                       THEN DictGet(method_config, "security", List(<<>>))
                       ELSE List(<<>>)
       IN  /\ auth_calls' = Invocations(security, security_dict, 1, 1)
           /\ IF err # ""
              THEN /\ pc' = "raised"
                   /\ error' = err
                   /\ UNCHANGED authorizers
              ELSE /\ pc' = "check"
                   /\ authorizers' = AuthorizerList(security, security_dict)
                   /\ UNCHANGED error
    /\ UNCHANGED <<document, swagger, event_type, paths_dict, security_dict, i, j,
                   function_name, result, returned>>

\* if not function_name: LOG.debug(...); continue
SkipEntry ==
    /\ pc = "check"
    /\ NoFunctionName(function_name)
    /\ pc' = "for"
    /\ UNCHANGED <<document, swagger, event_type, paths_dict, security_dict, i, j,
                   function_name, authorizers, auth_calls, result, returned, error>>

\* The rest of the loop body: the Route is built and appended.
EmitRoute ==
    /\ pc = "check"
    /\ ~NoFunctionName(function_name)
    /\ LET payload_format_version == _get_payload_format_version(method_config)
           route == Route(function_name, full_path, <<NormalizedMethod(method)>>,
                          event_type, payload_format_version, authorizers)
       IN  result' = AppendRoute(result, route)
    /\ pc' = "for"
    /\ UNCHANGED <<document, swagger, event_type, paths_dict, security_dict, i, j,
                   function_name, authorizers, auth_calls, returned, error>>

\* return result
GetRoutesReturn ==
    /\ pc = "for"
    /\ ~HasNext(paths_dict, i, j)
    /\ pc' = "done"
    /\ returned' = List(result)
    /\ UNCHANGED <<document, swagger, event_type, paths_dict, security_dict, i, j,
                   function_name, authorizers, auth_calls, result, error>>

-----------------------------------------------------------------------------
(* get_binary_media_types *)

GetBinaryMediaTypes ==
    /\ pc = "idle"
    /\ pc' = "binary"
    /\ returned' = BinaryMediaTypes(swagger)
    /\ UNCHANGED <<document, swagger, event_type, paths_dict, security_dict, i, j,
                   function_name, authorizers, auth_calls, result, error>>

-----------------------------------------------------------------------------

Init ==
    /\ document \in Documents
    /\ swagger = SwaggerParser_init(document)
    /\ pc = "idle"
    /\ event_type = Route_API
    /\ paths_dict = Dict(<<>>)
    /\ security_dict = Dict(<<>>)
    /\ i = 0
    /\ j = 0
    /\ function_name = PyNone
    /\ authorizers = List(<<>>)
    /\ auth_calls = <<>>
    /\ result = <<>>
    /\ returned = Unset
    /\ error = ""

Next ==
    \/ \E et \in EventTypes : GetRoutesBegin(et)
    \/ ResolveIntegration
    \/ ResolveAuthorizers
    \/ SkipEntry
    \/ EmitRoute
    \/ GetRoutesReturn
    \/ GetBinaryMediaTypes

Spec == Init /\ [][Next]_vars

-----------------------------------------------------------------------------
(* What the properties speak about, read off the document given to the     *)
(* constructor.                                                            *)

Field(v, k) ==
    IF v.t = "dict" /\ (\E n \in DOMAIN v.kv : v.kv[n][1] = k)
    THEN v.kv[CHOOSE n \in DOMAIN v.kv : v.kv[n][1] = k][2]
    ELSE Absent

DocPaths == Field(document, "paths")

DocSchemes == Field(Field(document, "components"), "securitySchemes")

\* The method entries of the document in nested enumeration order.
RECURSIVE EntriesFrom(_)
EntriesFrom(a) ==
    IF a > Len(DocPaths.kv)
    THEN <<>>
    ELSE [n \in DOMAIN DocPaths.kv[a][2].kv |->
            [path |-> DocPaths.kv[a][1],
             method |-> DocPaths.kv[a][2].kv[n][1],
             config |-> DocPaths.kv[a][2].kv[n][2]]] \o EntriesFrom(a + 1)

Entries == EntriesFrom(1)

RECURSIVE EntriesBefore(_)
EntriesBefore(a) == IF a <= 1 THEN 0 ELSE Len(DocPaths.kv[a - 1][2].kv) + EntriesBefore(a - 1)

\* Number of the entry the loop is at, 0 before the first.
EntryIndex == IF i = 0 THEN 0 ELSE EntriesBefore(i) + j

AtEntry == pc \in {"authorizers", "check", "for", "raised", "done"} /\ EntryIndex >= 1

Entry == Entries[EntryIndex]

\* The entry's integration is present, a non-empty mapping and of the proxy type.
ProxyIntegration(config) ==
    LET x == Field(config, _INTEGRATION_KEY)
    IN  /\ x.t = "dict"
        /\ x.kv # <<>>
        /\ Field(x, "type").t = "str"
        /\ Field(x, "type").s = "aws_proxy"

Resolve(uri) == LambdaUri_get_function_name(IF uri.t = "unset" THEN PyNone ELSE uri)

\* The resolver's answer for the entry's integration uri.
Identifier(config) == Resolve(Field(Field(config, _INTEGRATION_KEY), "uri"))

NonEmptyString(v) == v.t = "str" /\ v.s # ""

Qualifies(config) == ProxyIntegration(config) /\ NonEmptyString(Identifier(config))

SecurityOf(config) ==
    IF Field(config, "security").t = "unset" THEN <<>> ELSE Field(config, "security").kv

\* Some item of the entry's security names a scheme that securitySchemes lacks.
NamesAbsentScheme(config) ==
    \E k \in DOMAIN SecurityOf(config) : \E n \in DOMAIN SecurityOf(config)[k].kv :
        Field(DocSchemes, SecurityOf(config)[k].kv[n][1]).t = "unset"

\* The scheme config carries a non-empty authorizer mapping of type token or request.
QualifyingScheme(sc) ==
    LET a == Field(sc, _AUTHORIZER_KEY)
    IN  /\ a.t = "dict"
        /\ a.kv # <<>>
        /\ Field(a, "type").t = "str"
        /\ Field(a, "type").s \in {"token", "request"}

AuthorizerUri(sc) == Field(Field(sc, _AUTHORIZER_KEY), "authorizerUri")

QualifyingCount(n) == Cardinality({m \in 1..n : Qualifies(Entries[m].config)})

LastRoute == result[Len(result)]

\* The loop has just emitted the Route of the entry it is at.
JustEmitted == pc = "for" /\ EntryIndex >= 1 /\ Qualifies(Entry.config) /\ result # <<>>

-----------------------------------------------------------------------------
(* Properties *)

\* C1: a method entry whose integration is absent, malformed or of a non-proxy
\* type (the method config not being a mapping included) yields no Route and
\* does not make get_routes raise.
C1_NonProxyEntryIsSkippedQuietly ==
    (AtEntry /\ ~ProxyIntegration(Entry.config)) =>
        /\ pc # "raised"
        /\ pc \in {"for", "done"} => Len(result) = QualifyingCount(EntryIndex - 1)

\* C2: an entry without a usable integration is skipped before any authorizer
\* is resolved: when its security names a scheme that securitySchemes lacks,
\* the entry is skipped and the call does not fail.
C2_UnusableEntrySkippedBeforeAuthorizers ==
    (AtEntry /\ Entry.config.t = "dict" /\ ~Qualifies(Entry.config)
        /\ NamesAbsentScheme(Entry.config)) => pc # "raised"

\* C3: every Route carries a non-empty function identifier, and an entry
\* yields a Route exactly when its integration is of the proxy type and the
\* resolver returns a non-empty identifier for its uri.
C3_RouteIffIdentifierResolved ==
    /\ \A n \in DOMAIN result : NonEmptyString(result[n].function_name)
    /\ (pc \in {"for", "done"}) => Len(result) = QualifyingCount(EntryIndex)
    /\ pc = "done" => EntryIndex = Len(Entries) /\ returned = List(result)

C3_Witness ==
    /\ pc = "done"
    /\ Len(Entries) = 2
    /\ ProxyIntegration(Entries[1].config)
    /\ Identifier(Entries[1].config) = Str("")
    /\ Len(returned.kv) = 1

\* C4: when an entry with a resolved integration names, in its security, a
\* scheme that securitySchemes lacks, get_routes raises at that entry and
\* returns nothing, whatever routes it had built before.
C4_UnknownSchemeFailsTheCall ==
    \A n \in DOMAIN Entries :
        (Qualifies(Entries[n].config) /\ NamesAbsentScheme(Entries[n].config)
            /\ pc \in {"for", "authorizers", "check", "raised", "done"}) =>
            /\ returned = Unset
            /\ pc # "done"
            /\ EntryIndex <= n
            /\ EntryIndex = n => pc \in {"authorizers", "raised"}
            /\ (EntryIndex = n /\ pc = "raised") => error = "KeyError"

C4_Witness ==
    /\ pc = "raised"
    /\ error = "KeyError"
    /\ Qualifies(Entry.config)
    /\ NamesAbsentScheme(Entry.config)
    /\ Len(result) >= 1
    /\ returned = Unset

\* C5: the authorizers of an emitted Route hold one mapping per item of the
\* entry's security, in order; each mapping has the item's scheme names as
\* keys, in order, with the identifier resolved for the scheme, or None, as
\* value; without a security field the authorizers are empty.
C5_AuthorizersFollowSecurity ==
    JustEmitted =>
        LET sec == SecurityOf(Entry.config)
            auths == LastRoute.authorizers
        IN  /\ auths.t = "list"
            /\ Len(auths.kv) = Len(sec)
            /\ \A k \in DOMAIN sec :
                /\ auths.kv[k].t = "dict"
                /\ Len(auths.kv[k].kv) = Len(sec[k].kv)
                /\ \A n \in DOMAIN sec[k].kv :
                    LET sc == Field(DocSchemes, sec[k].kv[n][1])
                    IN  /\ auths.kv[k].kv[n][1] = sec[k].kv[n][1]
                        /\ auths.kv[k].kv[n][2] =
                             IF QualifyingScheme(sc) THEN Resolve(AuthorizerUri(sc))
                             ELSE PyNone

C5_Witness ==
    /\ JustEmitted
    /\ Len(SecurityOf(Entry.config)) = 2
    /\ LastRoute.authorizers.kv[1].kv[1] = <<"b", PyNone>>
    /\ LastRoute.authorizers.kv[2].kv[1] = <<"a", Str("Auth")>>

\* Equality of two method names up to the case of their letters.
EqualIgnoringCase(a, b) ==
    /\ Len(a) = Len(b)
    /\ \A n \in DOMAIN a :
        \/ a[n] = b[n]
        \/ \E u \in DOMAIN UpperToLower :
            {a[n], b[n]} = {u, UpperToLower[u]}

\* C6: an emitted entry whose key equals the any-method keyword, whatever the
\* case of its letters, has methods = ["ANY"]; any other key is the single
\* element of methods, unchanged.
C6_AnyMethodNormalized ==
    JustEmitted =>
        LastRoute.methods =
            IF EqualIgnoringCase(Entry.method, _ANY_METHOD_EXTENSION_KEY)
            THEN << <<"A","N","Y">> >>
            ELSE <<Entry.method>>

C6_Witness ==
    /\ JustEmitted
    /\ Entry.method = AnyMixed
    /\ LastRoute.methods = << <<"A","N","Y">> >>

RECURSIVE QualifyingFrom(_)
QualifyingFrom(n) ==
    IF n > Len(Entries)
    THEN <<>>
    ELSE (IF Qualifies(Entries[n].config) THEN <<Entries[n]>> ELSE <<>>)
         \o QualifyingFrom(n + 1)

\* C7: the returned list is the sequence of qualifying entries in document
\* order, paths in the order of the paths mapping and methods in the order of
\* each path's mapping; a document without paths yields the empty list.
C7_RoutesInDocumentOrder ==
    pc = "done" =>
        LET expected == QualifyingFrom(1)
        IN  /\ returned.t = "list"
            /\ Len(returned.kv) = Len(expected)
            /\ \A n \in DOMAIN expected :
                /\ returned.kv[n].path = expected[n].path
                /\ returned.kv[n].function_name = Identifier(expected[n].config)
                /\ returned.kv[n].methods[1] \in {expected[n].method, <<"A","N","Y">>}
            /\ DocPaths.t = "unset" => returned = List(<<>>)

C7_Witness ==
    /\ pc = "done"
    /\ Len(returned.kv) = 3
    /\ returned.kv[1].path = "/b"
    /\ returned.kv[2].path = "/b"
    /\ returned.kv[3].path = "/a"
    /\ returned.kv[1].function_name = Str("Bar")
    /\ returned.kv[2].function_name = Str("Foo")

C9_BinaryMediaTypes ==
    pc = "binary" =>
        LET held == Field(document, _BINARY_MEDIA_TYPES_EXTENSION_KEY)
        IN  /\ error = ""
            /\ returned = IF \/ held.t \in {"unset", "none"}
                             \/ held.t = "str" /\ held.s = ""
                             \/ held.t \in {"list", "dict"} /\ Len(held.kv) = 0
                          THEN List(<<>>)
                          ELSE held

C9_Witness ==
    /\ pc = "binary"
    /\ returned = List(<<Str("image/png"), Str("image/gif")>>)

\* C10: an emitted Route carries the path of its entry, exactly one method,
\* the event type given to get_routes, the resolver's identifier for the
\* integration's uri and the integration's payloadFormatVersion, None when
\* the integration has none.
C10_RouteFields ==
    /\ \A n \in DOMAIN result :
        /\ Len(result[n].methods) = 1
        /\ result[n].event_type = event_type
    /\ JustEmitted =>
        LET version == Field(Field(Entry.config, _INTEGRATION_KEY), "payloadFormatVersion")
        IN  /\ LastRoute.path = Entry.path
            /\ LastRoute.function_name = Identifier(Entry.config)
            /\ LastRoute.payload_format_version =
                 IF version.t = "unset" THEN PyNone ELSE version

C10_Witness ==
    /\ JustEmitted
    /\ event_type = Route_HTTP
    /\ LastRoute.payload_format_version = Str("2.0")
    /\ LastRoute.function_name = Str("Bar")
    /\ Len(result) = 2

====
